---- MODULE Spec2Model ----
(***************************************************************************)
(* cherentrace: decoding of the CORSIKA observation-level particle table.  *)
(*                                                                         *)
(* The model follows src/cherentrace/cherentrace.py.  A pandas DataFrame   *)
(* is a sequence of rows; every row carries its index label `idx` (the     *)
(* 0-based position of the record in the raw array), which                 *)
(* drop_duplicates leaves untouched.  Lengths are integers: centimetres    *)
(* in the raw data, metres after the /100 conversions; every raw length    *)
(* the model draws is a multiple of 100, so the float division is exact.   *)
(* Angles are whole degrees with exact tangent, sine and cosine.           *)
(***************************************************************************)
EXTENDS Integers, Sequences, FiniteSets, TLC

VARIABLES
  card,       \* source.file_.corsika_inputcards[0], split into lines of pieces
  shower,     \* event.simulation.shower: [alt, az] in degrees
  src,        \* state of the EventSource
  raw,        \* source.file_.current_obslev_particles
  fn,         \* the function being called
  pc,         \* position inside the called function
  obslev_z,   \* local of get_particles
  obslev_xy,  \* local of get_particles
  df,         \* local of get_particles: the table being built
  todo,       \* remaining values of the loop `for pid in [75, 76]`
  passes,     \* what _find_paired_data returned, one entry per call
  warnings,   \* the warnings printed by _find_paired_data
  result,     \* the value returned
  err,        \* the exception raised, "none" if none
  par         \* the two pairing passes run side by side (SpecPar only)

vars == <<card, shower, src, raw, fn, pc, obslev_z, obslev_xy, df, todo,
          passes, warnings, result, err, par>>

\* np.nan
NaN == -999999

\* Bounds of the model
MaxRows == 3
MaxLines == 3
MaxParRows == 4

(***************************************************************************)
(* Helpers on sequences                                                    *)
(***************************************************************************)
RECURSIVE SelectIdx(_, _, _)
\* the positions i of s, in order, with i \in keep
SelectIdx(s, keep, i) ==
  IF i > Len(s) THEN <<>>
  ELSE (IF i \in keep THEN <<s[i]>> ELSE <<>>) \o SelectIdx(s, keep, i + 1)

RECURSIVE Insert(_, _)
Insert(v, s) ==
  IF s = <<>> THEN <<v>>
  ELSE IF v <= Head(s) THEN <<v>> \o s
  ELSE <<Head(s)>> \o Insert(v, Tail(s))

RECURSIVE Sorted(_)
\* Python's sorted() on a list of numbers
Sorted(s) == IF s = <<>> THEN <<>> ELSE Insert(Head(s), Sorted(Tail(s)))

\* np.flip
Flip(s) == [i \in 1..Len(s) |-> s[Len(s) + 1 - i]]

\* arr[i] of a numpy array, i a Python index: negative indices wrap
NpInRange(arr, i) == i >= -Len(arr) /\ i < Len(arr)
NpTake(arr, i) == IF i >= 0 THEN arr[i + 1] ELSE arr[Len(arr) + i + 1]

\* np.sqrt on the perfect squares the model meets
Sqrt(n) == CHOOSE r \in 0..n : r * r = n

(***************************************************************************)
(* get_corsika_obslevs                                                     *)
(***************************************************************************)
\* float(w) for the number words the model uses; any other word is a ValueError
FloatOf == ("100000" :> 100000) @@ ("150000" :> 150000) @@ ("200000" :> 200000)
           @@ ("250000" :> 250000) @@ ("300000" :> 300000) @@ ("350000" :> 350000)
           @@ ("400000" :> 400000) @@ ("450000" :> 450000) @@ ("500000" :> 500000)
           @@ ("550000" :> 550000)

\* the pieces whose first character is '*'
StarPieces == {"*", "*OBSLEV"}

\* a line of the card is l.split(' '): the empty line splits into <<"">>
LineIsEmpty(l) == l = <<"">>
LineIsComment(l) == l[1] \in StarPieces

\* [w for w in l.split(' ') if w]
Words(l) == SelectIdx(l, {i \in 1..Len(l) : l[i] # ""}, 1)

\* input_card_wordlines
WordLines(c) ==
  LET kept == SelectIdx(c, {i \in 1..Len(c) : ~LineIsEmpty(c[i]) /\ ~LineIsComment(c[i])}, 1)
  IN [i \in 1..Len(kept) |-> Words(kept[i])]

\* the word lines the comprehension of line 76 selects
ObslevEntries(c) ==
  LET wl == WordLines(c)
  IN SelectIdx(wl, {i \in 1..Len(wl) : wl[i] # <<>> /\ wl[i][1] = "OBSLEV"}, 1)

\* get_corsika_obslevs, were it to refuse a card without OBSLEV entry
get_corsika_obslevs_strict(c) ==
  LET es == ObslevEntries(c)
      bad == {i \in 1..Len(es) : Len(es[i]) < 2 \/ es[i][2] \notin DOMAIN FloatOf}
      first == CHOOSE i \in bad : \A j \in bad : i <= j
  IN IF es = <<>> THEN [err |-> "MalformedConfig", val |-> <<>>]
     ELSE IF bad # {}
     THEN [err |-> IF Len(es[first]) < 2 THEN "IndexError" ELSE "ValueError", val |-> <<>>]
     ELSE [err |-> "none",
           val |-> Flip(Sorted([i \in 1..Len(es) |-> FloatOf[es[i][2]] \div 100]))]

\* the outcome of get_corsika_obslevs: [err, val]
get_corsika_obslevs(c) ==
  LET es == ObslevEntries(c)
      bad == {i \in 1..Len(es) : Len(es[i]) < 2 \/ es[i][2] \notin DOMAIN FloatOf}
      first == CHOOSE i \in bad : \A j \in bad : i <= j
  IN IF bad # {}
     THEN [err |-> IF Len(es[first]) < 2 THEN "IndexError" ELSE "ValueError", val |-> <<>>]
     ELSE [err |-> "none",
           val |-> Flip(Sorted([i \in 1..Len(es) |-> FloatOf[es[i][2]] \div 100]))]

(***************************************************************************)
(* _get_obslev_offsets                                                     *)
(***************************************************************************)
TanDeg == (0 :> 0) @@ (45 :> 1)
CosDeg == (0 :> 1) @@ (90 :> 0) @@ (180 :> -1)
SinDeg == (0 :> 0) @@ (90 :> 1) @@ (180 :> 0)

\* the outcome of _get_obslev_offsets: [err, val], val = [x, y]
get_obslev_offsets(c, sh) ==
  LET lv == get_corsika_obslevs(c)
      obslevs == lv.val
      tanth == TanDeg[90 - sh.alt]
  IN IF lv.err # "none" THEN [err |-> lv.err, val |-> [x |-> <<>>, y |-> <<>>]]
     ELSE IF Len(obslevs) = 0 THEN [err |-> "IndexError", val |-> [x |-> <<>>, y |-> <<>>]]
     ELSE [err |-> "none",
           val |-> [x |-> [i \in 1..Len(obslevs) |->
                            -1 * (obslevs[i] - NpTake(obslevs, -1)) * tanth * CosDeg[sh.az]],
                    y |-> [i \in 1..Len(obslevs) |->
                            (obslevs[i] - NpTake(obslevs, -1)) * tanth * SinDeg[sh.az]]]]

(***************************************************************************)
(* get_particles: the table                                                *)
(***************************************************************************)
\* pd.DataFrame(obslev_particles): the index labels are 0, 1, 2, ...
DataFrame(rs) ==
  [i \in 1..Len(rs) |->
    [idx |-> i - 1, x |-> rs[i].x, y |-> rs[i].y, cx |-> rs[i].cx, cy |-> rs[i].cy,
     time |-> rs[i].time, momentum |-> rs[i].momentum, weight |-> rs[i].weight,
     particle_id |-> rs[i].particle_id]]

\* subset = ['cx', 'cy', 'momentum', 'time']
DupKey(r) == <<r.cx, r.cy, r.momentum, r.time>>

\* drop_duplicates, were it called with keep = 'last'
drop_duplicates_last(t) ==
  SelectIdx(t, {i \in 1..Len(t) : \A j \in (i + 1)..Len(t) : DupKey(t[j]) # DupKey(t[i])}, 1)

\* df.drop_duplicates(subset = ..., keep = 'first')
drop_duplicates(t) ==
  SelectIdx(t, {i \in 1..Len(t) : \A j \in 1..(i - 1) : DupKey(t[j]) # DupKey(t[i])}, 1)

\* df.generation = (df.particle_id % 1000).astype(int)
RawGeneration(code) == code % 1000

\* df.particle_id = ((df.particle_id - df.generation) / 1000).astype(int)
ParticleId(code) == (code - RawGeneration(code)) \div 1000

\* lines 200-208 on one row
Convert(r) ==
  [idx |-> r.idx, x |-> r.x \div 100, y |-> r.y \div 100, cx |-> r.cx, cy |-> r.cy,
   time |-> r.time, momentum |-> r.momentum, weight |-> r.weight,
   cz |-> -1 * Sqrt(1 - r.cx * r.cx - r.cy * r.cy),
   z |-> NaN, obs_level |-> -1, fate_index |-> -1,
   generation |-> RawGeneration(r.particle_id),
   particle_id |-> ParticleId(r.particle_id)]

\* the standard class, were its lower bound forgotten
IsStd_unbounded(pid) == pid < 75 \/ pid > 100

\* "(particle_id > 0 and particle_id < 75) or particle_id > 100"
IsStd(pid) == (pid > 0 /\ pid < 75) \/ pid > 100

\* "75 <= particle_id <= 96"
IsAddiMuon(pid) == 75 <= pid /\ pid <= 96

\* the fate class, were its lower bound strict
IsFated_strict(pid) == 95 < pid /\ pid <= 96

\* "95 <= particle_id <= 96"
IsFated(pid) == 95 <= pid /\ pid <= 96

\* _obs_level of a standard row, after the mask of line 217
StdObsLevel(g) == IF (g % 10) = 0 THEN 10 ELSE (g % 10)

\* _generation, were it computed after the mask of line 217
StdGeneration_masked(g) == (g - StdObsLevel(g)) \div 10

\* _generation of a standard row: computed from the unmasked _obs_level
StdGeneration(g) == (g - (g % 10)) \div 10

\* lines 218-222 on one standard row
StdRow(r, xy, zs) ==
  LET l == StdObsLevel(r.generation)
  IN [r EXCEPT !.obs_level = l,
               !.generation = StdGeneration(r.generation),
               !.x = r.x - NpTake(xy.x, l - 1),
               !.y = r.y - NpTake(xy.y, l - 1),
               !.z = NpTake(zs, l - 1)]

\* lines 224-226 on one additional-muon-information row
AddiRow(r) == [r EXCEPT !.z = r.time \div 100, !.time = NaN]

\* numpy's IndexError at lines 220-222: a level beyond the configured ones
StdIndexError(t, xy, zs) ==
  \E i \in 1..Len(t) :
    /\ IsStd(t[i].particle_id)
    /\ ~NpInRange(xy.x, StdObsLevel(t[i].generation) - 1)

\* lines 204-226 on the table
Decode(t, xy, zs) ==
  [i \in 1..Len(t) |->
    IF IsStd(t[i].particle_id) THEN StdRow(t[i], xy, zs)
    ELSE IF IsAddiMuon(t[i].particle_id) THEN AddiRow(t[i])
    ELSE t[i]]

\* lines 196-226
LoadTable(rs, xy, zs) ==
  LET t == drop_duplicates(DataFrame(rs))
  IN Decode([i \in 1..Len(t) |-> Convert(t[i])], xy, zs)

(***************************************************************************)
(* _find_paired_data                                                       *)
(***************************************************************************)
\* the expected species, were the rule of 85 and 86 applied to 75 and 76
ExpectedPid_death(particle_id) ==
  IF particle_id \in {75, 76, 85, 86} THEN particle_id + 10 ELSE 0

\* the "unexpected" value stands for the RuntimeError of line 35
ExpectedPid(particle_id) ==
  IF particle_id \in {75, 76} THEN particle_id - 70
  ELSE IF particle_id \in {85, 86} THEN particle_id + 10
  ELSE 0

Labels(t) == {t[i].idx : i \in 1..Len(t)}

\* df.loc[label, :]
Loc(t, label) == t[CHOOSE i \in 1..Len(t) : t[i].idx = label]

\* _find_paired_data, were the species of the following row not compared
find_paired_data_unchecked(t, particle_id) ==
  LET rows == SelectIdx(t, {i \in 1..Len(t) : t[i].particle_id = particle_id}, 1)
      paired_idx == [i \in 1..Len(rows) |-> rows[i].idx + 1]
      found_idx == SelectIdx(paired_idx,
                     {i \in 1..Len(paired_idx) : paired_idx[i] \in Labels(t)}, 1)
      miss_idx == {paired_idx[i] : i \in 1..Len(paired_idx)} \ Labels(t)
  IN [keep_idx |-> [i \in 1..Len(found_idx) |-> found_idx[i] - 1],
      keep_vals |-> [i \in 1..Len(found_idx) |-> Loc(t, found_idx[i])],
      drop_idx |-> miss_idx]

\* [keep_idx, keep_vals, drop_idx]; an Index that keeps its order is a sequence
find_paired_data(t, particle_id) ==
  LET expected_pid == ExpectedPid(particle_id)
      rows == SelectIdx(t, {i \in 1..Len(t) : t[i].particle_id = particle_id}, 1)
      paired_idx == [i \in 1..Len(rows) |-> rows[i].idx + 1]
      found_idx == SelectIdx(paired_idx,
                     {i \in 1..Len(paired_idx) : paired_idx[i] \in Labels(t)}, 1)
      match_mask == [i \in 1..Len(found_idx) |->
                       Loc(t, found_idx[i]).particle_id = expected_pid]
      matched == SelectIdx(found_idx, {i \in 1..Len(found_idx) : match_mask[i]}, 1)
      miss_idx == {paired_idx[i] : i \in 1..Len(paired_idx)} \ Labels(t)
  IN [keep_idx |-> [i \in 1..Len(matched) |-> matched[i] - 1],
      keep_vals |-> [i \in 1..Len(matched) |-> Loc(t, matched[i])],
      drop_idx |-> {found_idx[i] : i \in {j \in 1..Len(found_idx) : ~match_mask[j]}}
                     \cup miss_idx]

\* the patch, were the generation of the birth row split like a standard one
PatchRow_split(r, lvl, xy) ==
  [r EXCEPT !.obs_level = lvl,
            !.generation = StdGeneration(r.generation),
            !.x = r.x - NpTake(xy.x, lvl - 1),
            !.y = r.y - NpTake(xy.y, lvl - 1)]

\* lines 234-236 for one row of birth_muon, lvl the level of its companion
PatchRow(r, lvl, xy) ==
  [r EXCEPT !.obs_level = lvl,
            !.x = r.x - NpTake(xy.x, lvl - 1),
            !.y = r.y - NpTake(xy.y, lvl - 1)]

\* the body of the loop of line 230 on the table
PairPass(t, pid, xy) ==
  LET fp == find_paired_data(t, pid)
      pos(label) == CHOOSE k \in 1..Len(fp.keep_idx) : fp.keep_idx[k] = label
      kept == {fp.keep_idx[k] : k \in 1..Len(fp.keep_idx)}
  IN [i \in 1..Len(t) |->
       IF t[i].idx \in kept
       THEN PatchRow(t[i], fp.keep_vals[pos(t[i].idx)].obs_level, xy)
       ELSE t[i]]

\* numpy's IndexError at lines 235-236
PairIndexError(t, pid, xy) ==
  LET fp == find_paired_data(t, pid)
  IN \E k \in 1..Len(fp.keep_vals) : ~NpInRange(xy.x, fp.keep_vals[k].obs_level - 1)

(***************************************************************************)
(* get_particles: lines 238-254                                            *)
(***************************************************************************)
FateIndex(g) == g % 10
FateGeneration(g) == (g - FateIndex(g)) \div 10

\* "particle_id in [5, 6, 75, 76, 85, 86, 95, 96]"
IsMuon(pid) == pid \in {5, 6, 75, 76, 85, 86, 95, 96}

\* the returned row: the columns of new_col_order
FinalRow(r) ==
  [idx |-> r.idx, x |-> r.x, y |-> r.y, z |-> r.z, cx |-> r.cx, cy |-> r.cy,
   cz |-> r.cz, time |-> r.time, momentum |-> r.momentum, weight |-> r.weight,
   particle_id |-> r.particle_id, obs_level |-> r.obs_level,
   fate_index |-> IF IsFated(r.particle_id) THEN FateIndex(r.generation)
                  ELSE r.fate_index,
   generation |-> IF IsFated(r.particle_id) THEN FateGeneration(r.generation)
                  ELSE r.generation,
   is_muon |-> IsMuon(r.particle_id)]

FinalTable(t) == [i \in 1..Len(t) |-> FinalRow(t[i])]

(***************************************************************************)
(* Inputs                                                                  *)
(***************************************************************************)
\* two levels, given lowest first: 2000 m and 1000 m
CardTwo == << <<"*", "OBSLEV", "300000">>, <<"OBSLEV", "100000">>, <<"">>,
              <<"OBSLEV", "", "200000">> >>

\* ten levels
CardTen == << <<"OBSLEV", "100000">>, <<"OBSLEV", "150000">>, <<"OBSLEV", "200000">>,
              <<"OBSLEV", "250000">>, <<"OBSLEV", "300000">>, <<"OBSLEV", "350000">>,
              <<"OBSLEV", "400000">>, <<"OBSLEV", "450000">>, <<"OBSLEV", "500000">>,
              <<"OBSLEV", "550000">> >>

\* the lines the cards of InitCards are made of
CardLines == { <<"">>, <<"*", "OBSLEV", "100000">>, <<"*OBSLEV", "100000">>,
               <<"RUNNR", "1">>, <<"OBSLEV", "100000">>, <<"", "OBSLEV", "", "200000">>,
               <<"OBSLEV">>, <<"OBSLEV", "abc">> }

Cards == UNION {[1..n -> CardLines] : n \in 1..MaxLines}

Showers == {[alt |-> 45, az |-> 0], [alt |-> 45, az |-> 90]}

\* species 5 and 6 at levels 1 and 2, birth muons 75 and 76, a fate 95 and a
\* negative (history) code
Codes == {5011, 6012, 75001, 76001, 95013, -5021}

ParCodes == {5011, 6012, 75001, 76001}

\* the raw record at position i: every record has its own position, and its
\* key (the time field) is a fresh one or the key of an earlier record
RawRow(i, code, time) ==
  [x |-> 100 * i, y |-> 200 * i, cx |-> 0, cy |-> 0, time |-> time, momentum |-> 1,
   weight |-> 1, particle_id |-> code]

RECURSIVE RawTables(_, _)
\* the raw arrays of n records with codes among `codes`
RawTables(codes, n) ==
  IF n = 0 THEN {<<>>}
  ELSE UNION {{Append(t, RawRow(n, c, tm)) :
                 c \in codes, tm \in {t[j].time : j \in 1..(n - 1)} \cup {100 * n}} :
               t \in RawTables(codes, n - 1)}

RECURSIVE FreshTables(_, _)
\* the raw arrays of n records with codes among `codes`, no two with the same key
FreshTables(codes, n) ==
  IF n = 0 THEN {<<>>}
  ELSE UNION {{Append(t, RawRow(n, c, 100 * n)) : c \in codes} :
               t \in FreshTables(codes, n - 1)}

\* the species of the standard class the decoding is tried on
StdSpecies == {1, 74, 101, 999}

\* code = species_id*1000 + generation*10 + (obs_level mod 10)
Encode(s, g, l) == s * 1000 + g * 10 + (l % 10)

NoResult == [kind |-> "unset", val |-> <<>>]
NoXY == [x |-> <<>>, y |-> <<>>]
ParIdle == [p \in {75, 76} |-> [st |-> "idle", keep_idx |-> <<>>, lvls |-> <<>>,
                                birth |-> <<>>, reads_pid |-> {}, reads_row |-> {},
                                writes |-> {}]]

Idle ==
  /\ fn = "none" /\ pc = "idle" /\ obslev_z = <<>> /\ obslev_xy = NoXY
  /\ df = <<>> /\ todo = <<>> /\ passes = <<>> /\ warnings = <<>>
  /\ result = NoResult /\ err = "none" /\ par = ParIdle

\* tables of every shape, on the card of two levels
InitTables ==
  /\ raw \in UNION {RawTables(Codes, n) : n \in 0..MaxRows}
  /\ card = CardTwo
  /\ shower \in Showers
  /\ src = "ok"
  /\ Idle

\* cards of every shape
InitCards ==
  /\ card \in Cards
  /\ shower = [alt |-> 45, az |-> 0]
  /\ src = "ok"
  /\ raw = <<RawRow(1, 6012, 100)>>
  /\ Idle

\* one standard record, every species, generation and level
InitDecode ==
  /\ card = CardTen
  /\ shower = [alt |-> 45, az |-> 0]
  /\ src = "ok"
  /\ raw \in {<<RawRow(1, Encode(s, g, l), 100)>> : s \in StdSpecies, g \in 0..99, l \in 1..10}
  /\ Idle

\* a source that is at another event, too old, or without the particle block
InitSource ==
  /\ card = CardTwo
  /\ shower \in Showers
  /\ src \in {"mismatch", "old", "disabled"}
  /\ raw = <<>>
  /\ Idle

Init == InitTables \/ InitCards \/ InitDecode \/ InitSource

(***************************************************************************)
(* Operations                                                              *)
(***************************************************************************)
Raise(e) ==
  /\ pc' = "raised"
  /\ err' = e
  /\ UNCHANGED <<obslev_z, obslev_xy, df, todo, passes, warnings, result>>

\* a call of get_corsika_obslevs(source)
CallGetCorsikaObslevs ==
  /\ pc = "idle"
  /\ fn' = "get_corsika_obslevs"
  /\ LET r == get_corsika_obslevs(card)
     IN IF r.err # "none" THEN Raise(r.err)
        ELSE /\ pc' = "done"
             /\ result' = [kind |-> "levels", val |-> r.val]
             /\ UNCHANGED <<obslev_z, obslev_xy, df, todo, passes, warnings, err>>
  /\ UNCHANGED <<card, shower, src, raw, par>>

\* get_particles(source, event), lines 181-226
GetParticlesLoad ==
  /\ pc = "idle"
  /\ fn' = "get_particles"
  /\ LET lv == get_corsika_obslevs(card)
         off == get_obslev_offsets(card, shower)
     IN IF src \in {"mismatch", "old"} THEN Raise("RuntimeError")
        ELSE IF src = "disabled"
        THEN /\ pc' = "done"
             /\ result' = [kind |-> "None", val |-> <<>>]
             /\ UNCHANGED <<obslev_z, obslev_xy, df, todo, passes, warnings, err>>
        ELSE IF lv.err # "none" THEN Raise(lv.err)
        ELSE IF off.err # "none" THEN Raise(off.err)
        ELSE IF StdIndexError([i \in 1..Len(raw) |-> Convert(DataFrame(raw)[i])],
                              off.val, lv.val)
        THEN Raise("IndexError")
        ELSE /\ pc' = "pair"
             /\ obslev_z' = lv.val
             /\ obslev_xy' = off.val
             /\ df' = LoadTable(raw, off.val, lv.val)
             /\ todo' = <<75, 76>>
             /\ UNCHANGED <<passes, warnings, result, err>>
  /\ UNCHANGED <<card, shower, src, raw, par>>

\* get_particles, one turn of the loop of lines 230-236
GetParticlesPair ==
  /\ pc = "pair" /\ fn = "get_particles"
  /\ todo # <<>>
  /\ LET pid == Head(todo)
         fp == find_paired_data(df, pid)
     IN IF PairIndexError(df, pid, obslev_xy) THEN Raise("IndexError")
        ELSE /\ df' = PairPass(df, pid, obslev_xy)
             /\ passes' = Append(passes, [pid |-> pid, keep_idx |-> fp.keep_idx,
                                          drop_idx |-> fp.drop_idx])
             /\ warnings' = IF fp.drop_idx # {}
                            THEN Append(warnings, [pid |-> pid, drop_idx |-> fp.drop_idx])
                            ELSE warnings
             /\ todo' = Tail(todo)
             /\ pc' = IF Tail(todo) = <<>> THEN "fate" ELSE "pair"
             /\ UNCHANGED <<obslev_z, obslev_xy, result, err>>
  /\ UNCHANGED <<card, shower, src, raw, fn, par>>

\* get_particles, lines 238-254
GetParticlesFinish ==
  /\ pc = "fate" /\ fn = "get_particles"
  /\ pc' = "done"
  /\ result' = [kind |-> "table", val |-> FinalTable(df)]
  /\ UNCHANGED <<card, shower, src, raw, fn, obslev_z, obslev_xy, df, todo, passes,
                 warnings, err, par>>

Next ==
  \/ CallGetCorsikaObslevs
  \/ GetParticlesLoad
  \/ GetParticlesPair
  \/ GetParticlesFinish

Spec == Init /\ [][Next]_vars

(***************************************************************************)
(* Properties                                                              *)
(***************************************************************************)
\* get_particles has returned a table
Returned == fn = "get_particles" /\ pc = "done" /\ result.kind = "table"

Rows(t) == {t[i] : i \in 1..Len(t)}

\* the positions of raw whose (cx, cy, momentum, time) no earlier record has
FirstOccurrences ==
  {i \in 1..Len(raw) :
     \A j \in 1..(i - 1) :
       <<raw[j].cx, raw[j].cy, raw[j].momentum, raw[j].time>>
         # <<raw[i].cx, raw[i].cy, raw[i].momentum, raw[i].time>>}

\* the row of t labelled idx + 1 exists and is of species pid - 70
HasCompanion(t, r) ==
  \E c \in Rows(t) : c.idx = r.idx + 1 /\ c.particle_id = r.particle_id - 70

\* every row of species pid in t is followed by its decoded companion
AllCompanioned(t, pid) ==
  \A r \in Rows(t) :
    r.particle_id = pid =>
      \E c \in Rows(t) : c.idx = r.idx + 1 /\ c.particle_id = pid - 70 /\ c.obs_level # -1

\* C1: when every row of species 75 (76) is immediately followed by a surviving
\* row of species 5 (6) with a decoded obs_level, the pairing resolver called
\* for that species drops nothing, and after the pairing pass every such birth
\* row has the obs_level of its companion.
C1_PairingCompleteness ==
  \A k \in 1..Len(passes) :
    AllCompanioned(df, passes[k].pid) =>
      /\ passes[k].drop_idx = {}
      /\ \A r \in Rows(df) : \A c \in Rows(df) :
           (r.particle_id = passes[k].pid /\ c.idx = r.idx + 1) =>
             r.obs_level = c.obs_level
      /\ Returned =>
           \A r \in Rows(result.val) : \A c \in Rows(result.val) :
             (r.particle_id = passes[k].pid /\ c.idx = r.idx + 1) =>
               r.obs_level = c.obs_level

\* C1 witness: a returned table whose birth row of species 75 is followed by
\* its companion and has taken its level
C1_Witness ==
  /\ Returned
  /\ AllCompanioned(df, 75) /\ AllCompanioned(df, 76)
  /\ Len(passes) = 2 /\ passes[1].pid = 75 /\ passes[1].drop_idx = {}
  /\ \E r \in Rows(result.val) : r.particle_id = 75 /\ r.obs_level = 1

\* C2: a birth-muon row whose row at index + 1 is absent or of another species
\* than species_id - 70 is not in the returned table, so that the returned
\* table has no birth-muon row with obs_level = -1.
C2_PairingRobustness ==
  Returned =>
    \A r \in Rows(result.val) :
      r.particle_id \in {75, 76} => (HasCompanion(result.val, r) /\ r.obs_level # -1)

\* C3: a code species_id*1000 + generation*10 + (obs_level mod 10) of the
\* standard class, generation in 0..99 and obs_level in 1..10, decodes to the
\* same species_id, generation and obs_level, a last digit 0 being level 10.
C3_DecodeRoundTrip ==
  Returned =>
    \A r \in Rows(result.val) : \A s \in StdSpecies \cup {5, 6} : \A l \in 1..10 :
      LET code == raw[r.idx + 1].particle_id
          g == (code - s * 1000 - (l % 10)) \div 10
      IN (g \in 0..99 /\ code = s * 1000 + g * 10 + (l % 10)) =>
           (r.particle_id = s /\ r.generation = g /\ r.obs_level = l)

\* C3 witness: a returned standard row of level 10, whose code ends in 0
C3_Witness ==
  /\ Returned
  /\ \E r \in Rows(result.val) :
       /\ raw[r.idx + 1].particle_id = 74 * 1000 + 99 * 10
       /\ r.particle_id = 74 /\ r.generation = 99 /\ r.obs_level = 10

\* the surviving raw records whose code decodes to a species_id <= 0
Unsupported == {i \in FirstOccurrences : raw[i].particle_id < 1000}

\* C4 (as claimed): when a record's code decodes to a species_id <= 0,
\* get_particles fails and returns no table.
C4_UnsupportedSpeciesFails ==
  (fn = "get_particles" /\ Unsupported # {}) => ~Returned

\* C4 (amended): get_particles raises nothing for a species_id <= 0: the only
\* exceptions are the RuntimeError of the source checks and numpy's and
\* float's IndexError and ValueError, and a returned table holds a row for
\* every such record, with the species_id floor(code / 1000), generation
\* code mod 1000, obs_level -1, fate_index -1 and is_muon false.
C4_UnsupportedSpeciesEmitted ==
  /\ err \in {"none", "RuntimeError", "IndexError", "ValueError"}
  /\ (pc = "raised" /\ err = "IndexError" /\ fn = "get_particles") =>
        \/ get_obslev_offsets(card, shower).err = "IndexError"
        \/ \E i \in 1..Len(raw) :
             LET s == raw[i].particle_id \div 1000
                 l == raw[i].particle_id % 10
             IN /\ (s > 0 /\ s < 75) \/ s > 100
                /\ (IF l = 0 THEN 10 ELSE l) > Len(get_corsika_obslevs(card).val)
  /\ Returned =>
       \A i \in Unsupported :
         \E r \in Rows(result.val) :
           /\ r.idx = i - 1
           /\ r.particle_id * 1000 + r.generation = raw[i].particle_id
           /\ r.particle_id <= 0
           /\ r.generation \in 0..999
           /\ r.obs_level = -1 /\ r.fate_index = -1 /\ r.is_muon = FALSE

\* C4 witness: a returned table with a row of negative species_id
C4_Witness ==
  /\ Returned
  /\ \E r \in Rows(result.val) : r.particle_id = -6 /\ r.generation = 979

\* C5: in every returned row generation >= 0; a standard row has obs_level in
\* 1..10 and fate_index -1; a fate row (95, 96) has a fate_index other than -1
\* and obs_level -1.
C5_TableInvariant ==
  Returned =>
    \A r \in Rows(result.val) :
      /\ r.generation >= 0
      /\ ((r.particle_id > 0 /\ r.particle_id < 75) \/ r.particle_id > 100) =>
            (r.obs_level \in 1..10 /\ r.fate_index = -1)
      /\ r.particle_id \in {95, 96} => (r.fate_index # -1 /\ r.obs_level = -1)

\* C5 witness: a returned table with a standard row, a fate row and a row of
\* negative species_id
C5_Witness ==
  /\ Returned
  /\ \E r \in Rows(result.val) : r.particle_id = 5
  /\ \E r \in Rows(result.val) : r.particle_id = 95 /\ r.fate_index = 3
  /\ \E r \in Rows(result.val) : r.particle_id < 0

\* C6: of the raw rows with the same (cx, cy, momentum, time) exactly the one
\* of smallest index reaches the returned table, with the code, x and y of
\* that first occurrence; rows with a key of their own are all kept.
C6_Deduplication ==
  Returned =>
    /\ {r.idx + 1 : r \in Rows(result.val)} = FirstOccurrences
    /\ Len(result.val) = Cardinality(FirstOccurrences)
    /\ \A r \in Rows(result.val) :
         LET first == raw[r.idx + 1]
             xoff == IF r.obs_level = -1 THEN 0 ELSE obslev_xy.x[r.obs_level]
             yoff == IF r.obs_level = -1 THEN 0 ELSE obslev_xy.y[r.obs_level]
         IN /\ r.particle_id = first.particle_id \div 1000
            /\ r.x + xoff = first.x \div 100
            /\ r.y + yoff = first.y \div 100

\* C6 witness: a returned table of two rows from three raw records, the second
\* record having the key of the first
C6_Witness ==
  /\ Returned
  /\ Len(raw) = 3 /\ Len(result.val) = 2
  /\ raw[2].time = raw[1].time /\ raw[2].particle_id # raw[1].particle_id
  /\ result.val[1].idx = 0 /\ result.val[2].idx = 2

\* the level set has no OBSLEV entry outside comment and blank lines
NoObslevEntry ==
  \A i \in 1..Len(card) :
    \/ card[i] = <<"">>
    \/ card[i][1] \in {"*", "*OBSLEV"}
    \/ \A k \in 1..Len(card[i]) :
         card[i][k] = "OBSLEV" => \E j \in 1..(k - 1) : card[i][j] # ""

\* C7 (as claimed): on a card without OBSLEV entry get_corsika_obslevs fails
\* instead of returning an empty level set.
C7_MalformedConfigFails ==
  (fn = "get_corsika_obslevs" /\ NoObslevEntry) => (pc = "raised" /\ result.kind = "unset")

\* C7 (amended): on a card without OBSLEV entry get_corsika_obslevs raises
\* nothing and returns the empty level set.
C7_EmptyLevelSetReturned ==
  (fn = "get_corsika_obslevs" /\ NoObslevEntry) =>
    (pc = "done" /\ err = "none" /\ result = [kind |-> "levels", val |-> <<>>])

\* C7 witness: get_corsika_obslevs has returned on a card whose only OBSLEV
\* is in a comment line
C7_Witness ==
  /\ fn = "get_corsika_obslevs" /\ pc = "done"
  /\ NoObslevEntry
  /\ \E i \in 1..Len(card) : card[i][1] = "*OBSLEV"

\* C8: the matched and the dropped set of the resolver are disjoint, every
\* index of either set is the index of a row of the resolved species, and the
\* two sets hold every such row.
C8_PairingPartition ==
  \A k \in 1..Len(passes) :
    LET keep == {passes[k].keep_idx[i] : i \in 1..Len(passes[k].keep_idx)}
        drop == passes[k].drop_idx
        births == {r.idx : r \in {q \in Rows(df) : q.particle_id = passes[k].pid}}
    IN /\ keep \cap drop = {}
       /\ keep \cup drop = births

\* C9: a pairing pass changes only obs_level, x and y of the birth rows
\* (75, 76) with a valid companion: the order of the rows, every other row
\* and the other fields of the birth rows stay as they are.
C9_PairingIsPatch ==
  [][(pc = "pair" /\ pc' \in {"pair", "fate"}) =>
      /\ Len(df') = Len(df)
      /\ \A i \in 1..Len(df) :
           \/ df'[i] = df[i]
           \/ /\ df[i].particle_id \in {75, 76}
              /\ HasCompanion(df, df[i])
              /\ [df'[i] EXCEPT !.obs_level = df[i].obs_level,
                                !.x = df[i].x, !.y = df[i].y] = df[i]]_vars

\* C9 witness: after the two passes a birth row has the level of its
\* companion and a shifted x, next to a birth row without companion
C9_Witness ==
  /\ pc = "fate" /\ Len(passes) = 2
  /\ \E r \in Rows(df) :
       r.particle_id = 75 /\ r.obs_level = 1 /\ r.x # raw[r.idx + 1].x \div 100
  /\ \E r \in Rows(df) : r.particle_id = 76 /\ r.obs_level = -1

(***************************************************************************)
(* The two pairing passes side by side.  Each pass calls _find_paired_data *)
(* on the table as it is when the pass starts, takes its snapshot          *)
(* birth_muon, and then writes its rows one at a time, in any order and    *)
(* interleaved with the other pass.                                        *)
(***************************************************************************)
InitPar ==
  /\ raw \in UNION {FreshTables(ParCodes, n) : n \in 0..MaxParRows}
  /\ card = CardTwo
  /\ shower = [alt |-> 45, az |-> 90]
  /\ src = "ok"
  /\ Idle

\* the labels idx + 1 that line 41 looks up
FoundIdx(t, pid) ==
  {r.idx + 1 : r \in {q \in Rows(t) : q.particle_id = pid}} \cap Labels(t)

\* lines 231-233 of the pass for pid
ParStart(pid) ==
  /\ pc = "pair" /\ fn = "get_particles"
  /\ par[pid].st = "idle"
  /\ LET fp == find_paired_data(df, pid)
         keep == {fp.keep_idx[k] : k \in 1..Len(fp.keep_idx)}
     IN par' = [par EXCEPT ![pid] =
                  [st |-> "run",
                   keep_idx |-> fp.keep_idx,
                   lvls |-> [k \in 1..Len(fp.keep_vals) |-> fp.keep_vals[k].obs_level],
                   birth |-> [k \in 1..Len(fp.keep_idx) |-> Loc(df, fp.keep_idx[k])],
                   reads_pid |-> FoundIdx(df, pid),
                   reads_row |-> keep \cup {fp.keep_vals[k].idx : k \in 1..Len(fp.keep_vals)},
                   writes |-> {}]]
  /\ UNCHANGED <<card, shower, src, raw, fn, pc, obslev_z, obslev_xy, df, todo,
                 passes, warnings, result, err>>

\* lines 234-236 of the pass for pid, for its k-th row
ParUpdate(pid, k) ==
  /\ pc = "pair" /\ fn = "get_particles"
  /\ par[pid].st = "run"
  /\ k \in 1..Len(par[pid].keep_idx)
  /\ par[pid].keep_idx[k] \notin par[pid].writes
  /\ LET new == PatchRow(par[pid].birth[k], par[pid].lvls[k], obslev_xy)
     IN df' = [i \in 1..Len(df) |->
                 IF df[i].idx = par[pid].keep_idx[k]
                 THEN [df[i] EXCEPT !.obs_level = new.obs_level, !.x = new.x, !.y = new.y]
                 ELSE df[i]]
  /\ par' = [par EXCEPT ![pid].writes = @ \cup {par[pid].keep_idx[k]}]
  /\ UNCHANGED <<card, shower, src, raw, fn, pc, obslev_z, obslev_xy, todo,
                 passes, warnings, result, err>>

\* the pass for pid has written all its rows
ParEnd(pid) ==
  /\ pc = "pair" /\ fn = "get_particles"
  /\ par[pid].st = "run"
  /\ par[pid].writes = {par[pid].keep_idx[k] : k \in 1..Len(par[pid].keep_idx)}
  /\ par' = [par EXCEPT ![pid].st = "done"]
  /\ UNCHANGED <<card, shower, src, raw, fn, pc, obslev_z, obslev_xy, df, todo,
                 passes, warnings, result, err>>

NextPar ==
  \/ GetParticlesLoad
  \/ \E pid \in {75, 76} : ParStart(pid)
  \/ \E pid \in {75, 76} : \E k \in 1..MaxParRows : ParUpdate(pid, k)
  \/ \E pid \in {75, 76} : ParEnd(pid)

SpecPar == InitPar /\ [][NextPar]_vars

\* the table when the decoding of the standard rows has completed
Decoded == LoadTable(raw, obslev_xy, obslev_z)

BothDone == pc = "pair" /\ par[75].st = "done" /\ par[76].st = "done"

\* the final table is the one of the passes run one after the other, in
\* either order
SameFinalTable ==
  BothDone =>
    /\ df = PairPass(PairPass(Decoded, 75, obslev_xy), 76, obslev_xy)
    /\ df = PairPass(PairPass(Decoded, 76, obslev_xy), 75, obslev_xy)

\* the rows a started pass has looked up or is to write
Touched(pid) ==
  par[pid].reads_pid \cup par[pid].reads_row
    \cup {par[pid].keep_idx[k] : k \in 1..Len(par[pid].keep_idx)}

\* C10 (as claimed): run in any order or interleaved, the two passes give the
\* same final table, and no pass reads or writes a row the other reads or
\* writes.
C10_PassesRowDisjoint ==
  /\ SameFinalTable
  /\ (par[75].st # "idle" /\ par[76].st # "idle") => Touched(75) \cap Touched(76) = {}

\* C10 (amended): run in any order or interleaved, the two passes give the
\* same final table: a pass writes obs_level, x and y of its own birth rows
\* only, no pass writes a row whose obs_level, x or y the other reads, and
\* of the rows the other writes a pass reads the particle_id only, which no
\* pass changes.
C10_PassesIndependent ==
  /\ SameFinalTable
  /\ (par[75].st # "idle" /\ par[76].st # "idle") =>
       /\ par[75].reads_row \cap {par[76].keep_idx[k] : k \in 1..Len(par[76].keep_idx)} = {}
       /\ par[76].reads_row \cap {par[75].keep_idx[k] : k \in 1..Len(par[75].keep_idx)} = {}
  /\ pc = "pair" =>
       /\ Len(df) = Len(Decoded)
       /\ \A i \in 1..Len(df) : df[i].particle_id = Decoded[i].particle_id

\* C10 witness: both passes have ended, each having written a birth row
C10_Witness ==
  /\ BothDone
  /\ par[75].writes # {} /\ par[76].writes # {}
  /\ \E r \in Rows(df) : r.particle_id = 75 /\ r.obs_level = 1
  /\ \E r \in Rows(df) : r.particle_id = 76 /\ r.obs_level = 2

====
